---- MODULE Spec2Model ----
(***************************************************************************)
(* A model of beta/noise_classes.py: the noise generator classes, the      *)
(* registries and prepare_noise.                                           *)
(*                                                                         *)
(* Tensors are not modelled by value.  A random draw is a token naming the *)
(* stream it was taken from (whose generator, seeded with what, at which   *)
(* position), so that two fields are equal exactly when they were drawn    *)
(* from the same places of the same streams and combined the same way.     *)
(* The numeric last step of every __call__ (the normalisation) is modelled *)
(* exactly, over small integer fields, in the NormSpec part.               *)
(***************************************************************************)
EXTENDS Integers, Sequences, FiniteSets, TLC

VARIABLES
    gen,        \* one generator instance (Spec)
    lastcall,   \* the last __call__ made on gen: its kwargs, outcome and field
    globalRng,  \* torch's process-wide default generator
    twin,       \* two instances built from the same arguments (TwinSpec)
    pn,         \* one run of prepare_noise (PrepareSpec)
    pl,         \* one application of PerlinNoiseGenerator.perlin_noise (PerlinSpec)
    nz,         \* one application of a generator's final normalisation (NormSpec)
    ct,         \* one construction of a generator from given arguments (CtorSpec)
    rg,         \* one lookup of a tag in the registries (RegistrySpec)
    fr          \* one spectral density grid of the fractal generator (FractalSpec)

vars == <<gen, lastcall, globalRng, twin, pn, pl, nz, ct, rg, fr>>

(***************************************************************************)
(* Bounds of the model.                                                    *)
(***************************************************************************)
MaxCalls == 2       \* calls made on one instance
MaxBatch == 2       \* batch size b of a reference latent
MaxGlobalPos == 1   \* draws other code takes from the process-wide generator

Seeds == {0, 42}

\* Shape descriptors: (b, c, h, w) and (b, c, t, h, w).
Sizes4 == {<<1, 1, 2, 2>>, <<1, 1, 4, 4>>}
Sizes5 == {<<1, 2, 2, 2, 2>>}
Sizes == Sizes4 \cup Sizes5

Min(a, b) == IF a <= b THEN a ELSE b

RECURSIVE Pow(_, _)
Pow(r, i) == IF i = 0 THEN 1 ELSE r * Pow(r, i - 1)

(***************************************************************************)
(* Keyword arguments.  A kwargs value is a function from the names passed  *)
(* to what was passed: None, or a value.  A name that is not in the domain *)
(* was omitted by the caller.                                              *)
(***************************************************************************)
NoneArg == [kind |-> "none"]
Val(v) == [kind |-> "value", val |-> v]
NoKwargs == [n \in {} |-> NoneArg]

(***************************************************************************)
(* The RNG context: a torch.Generator is its seed and how many draws have  *)
(* been taken since it was seeded.                                         *)
(***************************************************************************)
\* A generator keeps its seed as an unsigned 64-bit integer: manual_seed
\* takes a negative seed in two's complement, and initial_seed reports the
\* unsigned value.  TLC's integers have 32 bits, so the modulus 2^64 is
\* scaled to 2^30 here, far above every seed a run starts from.
SeedModulus == 1073741824

manual_seed(s) == [seed |-> s % SeedModulus, pos |-> 0]
initial_seed(rng) == rng.seed

\* One draw from rng: the token of the values drawn.
Token(src, rng) == <<src, rng.seed, rng.pos>>
Advance(rng, n) == [rng EXCEPT !.pos = @ + n]
Tokens(src, rng, n) == [i \in 1..n |-> <<src, rng.seed, rng.pos + i - 1>>]

(***************************************************************************)
(* The process-wide random state: the CPU default generator (seed, pos)    *)
(* and, in a build with an accelerator, that device's default generator    *)
(* (cuda).  torch.manual_seed seeds the default generator of every device; *)
(* torch.random.get_rng_state and set_rng_state read and write the CPU     *)
(* default generator only.                                                 *)
(***************************************************************************)
torch_manual_seed(grng, s) ==
    IF "cuda" \in DOMAIN grng
    THEN [seed |-> s, pos |-> 0, cuda |-> manual_seed(s)]
    ELSE manual_seed(s)

get_rng_state(grng) == [seed |-> grng.seed, pos |-> grng.pos]

set_rng_state(grng, state) == [grng EXCEPT !.seed = state.seed, !.pos = state.pos]

(***************************************************************************)
(* The generator classes, their constructor defaults and the defaults of   *)
(* their __call__ signatures.  Float parameters are kept as their literals.*)
(***************************************************************************)
Classes ==
    { "NoiseGenerator", "BrownianNoiseGenerator", "FractalNoiseGenerator",
      "SimplexNoiseGenerator", "HiresPyramidNoiseGenerator", "PyramidNoiseGenerator",
      "InterpolatedPyramidNoiseGenerator", "CascadeBPyramidNoiseGenerator",
      "UniformNoiseGenerator", "GaussianNoiseGenerator",
      "GaussianBackwardsNoiseGenerator", "LaplacianNoiseGenerator",
      "StudentTNoiseGenerator", "WaveletNoiseGenerator", "PerlinNoiseGenerator" }

CascadeLevelsDefault == 10
CascadeSizeRangeDefault == <<1, 16>>

\* The keyword parameters of cls.__init__ beyond the base ones, with their defaults.
InitDefaults(cls) ==
    CASE cls = "FractalNoiseGenerator" -> [alpha |-> "0.0", k |-> "1.0", scale |-> "0.1"]
      [] cls = "SimplexNoiseGenerator" -> [scale |-> "0.01"]
      [] cls = "HiresPyramidNoiseGenerator" -> [discount |-> "0.7", mode |-> "nearest-exact"]
      [] cls = "PyramidNoiseGenerator" -> [discount |-> "0.8", mode |-> "nearest-exact"]
      [] cls = "InterpolatedPyramidNoiseGenerator" -> [discount |-> "0.7", mode |-> "nearest-exact"]
      [] cls = "CascadeBPyramidNoiseGenerator" ->
            [levels |-> CascadeLevelsDefault, mode |-> "nearest", size_range |-> CascadeSizeRangeDefault]
      [] cls = "UniformNoiseGenerator" -> [mean |-> "0.0", scale |-> "1.73"]
      [] cls = "GaussianNoiseGenerator" -> [mean |-> "0.0", std |-> "1.0"]
      [] cls = "GaussianBackwardsNoiseGenerator" -> [mean |-> "0.0", std |-> "1.0"]
      [] cls = "LaplacianNoiseGenerator" -> [loc |-> "0", scale |-> "1.0"]
      [] cls = "StudentTNoiseGenerator" -> [loc |-> "0", scale |-> "0.2", df |-> "1"]
      [] cls = "WaveletNoiseGenerator" -> [wavelet |-> "haar"]
      [] cls = "PerlinNoiseGenerator" -> [detail |-> "0.0"]
      [] OTHER -> NoKwargs

\* The named keyword parameters of cls.__call__, with the defaults of its signature.
CallDefaults(cls) ==
    CASE cls = "CascadeBPyramidNoiseGenerator" ->
            [levels |-> Val(CascadeLevelsDefault), mode |-> Val("nearest"),
             size_range |-> Val(CascadeSizeRangeDefault)]
      [] cls = "BrownianNoiseGenerator" -> [sigma |-> NoneArg, sigma_next |-> NoneArg]
      [] OTHER -> [p \in DOMAIN InitDefaults(cls) |-> NoneArg]

\* Python binds a call's kwargs to the signature: a named parameter gets what
\* was passed or its default; every other name goes to **kwargs and is dropped.
Bind(cls, kwargs) ==
    [p \in DOMAIN CallDefaults(cls) |->
        IF p \in DOMAIN kwargs THEN kwargs[p] ELSE CallDefaults(cls)[p]]

\* NoiseGenerator.__call__(self) takes no keyword at all.
AcceptsKwargs(cls) == cls # "NoiseGenerator"

(***************************************************************************)
(* NoiseGenerator.update: for each kwarg in order, setattr when the value  *)
(* is not None, then getattr (which raises when the attribute was never    *)
(* set).                                                                   *)
(***************************************************************************)
SetAttr(attrs, n, v) == [m \in DOMAIN attrs \cup {n} |-> IF m = n THEN v ELSE attrs[m]]

RECURSIVE update(_, _, _)
update(attrs, names, kwargs) ==
    IF names = <<>> THEN [attrs |-> attrs, error |-> "none"]
    ELSE LET n == Head(names)
             a1 == IF kwargs[n].kind = "value" THEN SetAttr(attrs, n, kwargs[n].val) ELSE attrs
         IN  IF n \notin DOMAIN a1
             THEN [attrs |-> a1, error |-> "AttributeError"]
             ELSE update(a1, Tail(names), kwargs)

(***************************************************************************)
(* Generator instances.  attrs holds the attributes set through update (or *)
(* assigned directly): the algorithm parameters of the class.              *)
(***************************************************************************)
NoGen == [constructed |-> FALSE]

\* A reference tensor x: what like(x) reads from it.
Tensor(size) == [shape |-> size, dtype |-> "float64", layout |-> "strided", device |-> "cpu"]

\* The order in which __init__ and __call__ hand the parameters to update.
InitUpdateOrder(cls) ==
    CASE cls = "FractalNoiseGenerator" -> <<"alpha", "k", "scale">>
      [] cls \in {"HiresPyramidNoiseGenerator", "PyramidNoiseGenerator",
                  "InterpolatedPyramidNoiseGenerator"} -> <<"discount", "mode">>
      [] cls = "CascadeBPyramidNoiseGenerator" -> <<"epsilon", "levels", "mode", "size_range">>
      [] cls = "UniformNoiseGenerator" -> <<"mean", "scale">>
      [] cls \in {"GaussianNoiseGenerator", "GaussianBackwardsNoiseGenerator"} -> <<"mean", "std">>
      [] cls = "LaplacianNoiseGenerator" -> <<"loc", "scale">>
      [] cls = "StudentTNoiseGenerator" -> <<"loc", "scale", "df">>
      [] cls = "WaveletNoiseGenerator" -> <<"wavelet">>
      [] cls = "PerlinNoiseGenerator" -> <<"detail">>
      [] OTHER -> <<>>

CallUpdateOrder(cls) ==
    CASE cls = "CascadeBPyramidNoiseGenerator" -> <<"levels", "mode">>
      [] cls = "SimplexNoiseGenerator" -> <<"scale">>
      [] OTHER -> InitUpdateOrder(cls)

\* NoiseGenerator.__init__ with a reference tensor x and no generator given.
NoiseGenerator_init(cls, x, seed) ==
    [ constructed |-> TRUE,
      cls         |-> cls,
      seed        |-> seed,
      x           |-> x,
      size        |-> x.shape,
      dtype       |-> x.dtype,
      layout      |-> x.layout,
      device      |-> x.device,
      last_seed   |-> seed,
      generator   |-> manual_seed(seed),
      attrs       |-> NoKwargs ]

\* cls.__init__(x=x, seed=seed, ...params): params are the class's own keyword
\* parameters that the caller passed; the others take the signature's default.
Construct(cls, x, seed, params) ==
    LET base == NoiseGenerator_init(cls, x, seed)
        given == [p \in DOMAIN InitDefaults(cls) |->
                     IF p \in DOMAIN params THEN params[p] ELSE Val(InitDefaults(cls)[p])]
    IN  CASE cls = "SimplexNoiseGenerator" ->
                \* self.noise = OpenSimplex(seed=seed); self.scale = scale
                [base EXCEPT !.attrs = SetAttr(SetAttr(@, "noise", seed), "scale", given.scale.val)]
          [] cls = "CascadeBPyramidNoiseGenerator" ->
                [base EXCEPT !.attrs =
                    update(@, InitUpdateOrder(cls),
                           [n \in DOMAIN given \cup {"epsilon"} |->
                               IF n = "epsilon" THEN Val("x") ELSE given[n]]).attrs]
          [] OTHER ->
                [base EXCEPT !.attrs = update(@, InitUpdateOrder(cls), given).attrs]

(***************************************************************************)
(* A call's result: the instance and the process-wide generator after it,  *)
(* how it ended, and the field it returned.                                *)
(***************************************************************************)
NoField == [none |-> TRUE]

Result(g, grng, outcome, field) ==
    [gen |-> g, global |-> grng, outcome |-> outcome, field |-> field]

\* The field a __call__ returns: the class, the shape, the draws that went
\* into it, the parameter values the synthesis read, and the final step.
Field(cls, shape, draws, used, norm) ==
    [cls |-> cls, shape |-> shape, draws |-> draws, used |-> used, norm |-> norm]

\* self.update(p1=p1, ...) at the head of a __call__.
CallUpdate(g, kwargs) ==
    [g EXCEPT !.attrs = update(@, CallUpdateOrder(g.cls), Bind(g.cls, kwargs)).attrs]

\* A variant that counts a call twice; no class is modelled with it.
BumpLastSeedTwice(g) == [g EXCEPT !.last_seed = @ + 2]

\* self.last_seed += 1
BumpLastSeed(g) == [g EXCEPT !.last_seed = @ + 1]

Rank(size) == Len(size)
Height(size) == size[Len(size) - 1]
Width(size) == size[Len(size)]
Frames(size) == IF Len(size) = 5 THEN size[3] ELSE 1

NoUsed == [n \in {} |-> "unused"]

\* One torch draw of a whole tensor from self.generator.
DrawOne(g) == Token("generator", g.generator)
AfterDraws(g, n) == [g EXCEPT !.generator = Advance(@, n)]

(***************************************************************************)
(* NoiseGenerator.__call__ and BrownianNoiseGenerator.__call__             *)
(***************************************************************************)
\* def __call__(self): any keyword is refused by Python before the body runs.
NoiseGenerator_call(g, kwargs, grng) ==
    IF DOMAIN kwargs # {}
    THEN Result(g, grng, "TypeError", NoField)
    ELSE Result(g, grng, "NotImplementedError", NoField)

\* A new BrownianTreeNoiseSampler over self.x with seed=self.seed on every
\* call; nothing of the instance changes.
BrownianNoiseGenerator_call(g, kwargs, grng) ==
    LET b == Bind(g.cls, kwargs)
    IN  Result(g, grng, "ok",
               Field(g.cls, g.x.shape, << <<"brownian", g.seed, 0>> >>,
                     [sigma |-> b.sigma, sigma_next |-> b.sigma_next], "external"))

(***************************************************************************)
(* FractalNoiseGenerator.__call__                                          *)
(***************************************************************************)
FractalNoiseGenerator_call(g, kwargs, grng) ==
    LET g1 == BumpLastSeed(CallUpdate(g, kwargs))
    IN  Result(AfterDraws(g1, 1), grng, "ok",
               Field(g.cls, g1.size, <<DrawOne(g1)>>,
                     [alpha |-> g1.attrs.alpha, k |-> g1.attrs.k, scale |-> g1.attrs.scale],
                     "std"))

(***************************************************************************)
(* SimplexNoiseGenerator.__call__: self.noise is the OpenSimplex object,   *)
(* kept as its seed.  The array is sampled over (w, h, c) and unsqueezed.  *)
(***************************************************************************)
SimplexShape(size) ==
    IF Rank(size) = 5 THEN <<1, 1, size[2], size[4], size[5]>>
    ELSE <<1, size[2], size[3], size[4]>>

SimplexNoiseGenerator_call(g, kwargs, grng) ==
    LET g1 == BumpLastSeed(CallUpdate(g, kwargs))
        g2 == [g1 EXCEPT !.attrs = SetAttr(@, "noise", g1.attrs.noise + 1)]
    IN  Result(g2, grng, "ok",
               Field(g.cls, SimplexShape(g1.size), << <<"simplex", g1.attrs.noise, 0>> >>,
                     NoUsed, "std"))

(***************************************************************************)
(* HiresPyramidNoiseGenerator and InterpolatedPyramidNoiseGenerator: a     *)
(* base draw, then up to 4 levels, each a draw of the factor r and a draw  *)
(* of the level's noise.  r = rand(1).item() * 2 + 2 is a function of the  *)
(* generator's state; it is kept as an integer of [2, 4).                  *)
(***************************************************************************)
RandR(rng) == 2 + ((rng.seed + rng.pos) % 2)

RECURSIVE GrowLoop(_, _, _, _, _, _)
GrowLoop(size, i, h, w, t, st) ==
    IF i = 4 THEN st
    ELSE LET r    == RandR(st.rng)
             rng1 == Advance(st.rng, 1)
             h1   == Min(Height(size) * 15, h * Pow(r, i))
             w1   == Min(Width(size) * 15, w * Pow(r, i))
             t1   == IF Rank(size) = 5 THEN Min(Frames(size) * 15, t * Pow(r, i)) ELSE t
             st1  == [rng    |-> Advance(rng1, 1),
                      levels |-> Append(st.levels, <<Token("generator", rng1), t1, h1, w1>>)]
         IN  IF h1 >= Height(size) * 15 \/ w1 >= Width(size) * 15 \/ t1 >= Frames(size) * 15
             THEN st1
             ELSE GrowLoop(size, i + 1, h1, w1, t1, st1)

GrowingPyramid_call(g, kwargs, grng, norm) ==
    LET g1   == BumpLastSeed(CallUpdate(g, kwargs))
        base == DrawOne(g1)
        st   == GrowLoop(g1.size, 0, Height(g1.size), Width(g1.size), Frames(g1.size),
                         [rng |-> Advance(g1.generator, 1), levels |-> <<>>])
    IN  Result([g1 EXCEPT !.generator = st.rng], grng, "ok",
               Field(g.cls, g1.size, <<base>> \o st.levels,
                     [discount |-> g1.attrs.discount, mode |-> g1.attrs.mode], norm))

HiresPyramidNoiseGenerator_call(g, kwargs, grng) ==
    GrowingPyramid_call(g, kwargs, grng, "std")

\* Divides by sqrt(sum m^2) first, then by the empirical std.
InterpolatedPyramidNoiseGenerator_call(g, kwargs, grng) ==
    GrowingPyramid_call(g, kwargs, grng, "std")

(***************************************************************************)
(* PyramidNoiseGenerator.__call__: 5 draws, at 2, 4, 8, 16 and 32 times    *)
(* the resolution.                                                         *)
(***************************************************************************)
PyramidNoiseGenerator_call(g, kwargs, grng) ==
    LET g1 == BumpLastSeed(CallUpdate(g, kwargs))
    IN  Result(AfterDraws(g1, 5), grng, "ok",
               Field(g.cls, g1.size,
                     [i \in 1..5 |-> <<<<"generator", g1.generator.seed, g1.generator.pos + i - 1>>,
                                       Pow(2, i)>>],
                     [discount |-> g1.attrs.discount, mode |-> g1.attrs.mode], "std"))

(***************************************************************************)
(* CascadeBPyramidNoiseGenerator.__call__.  levels and size_range are the  *)
(* call's own arguments (self.levels and self.size_range are not read);    *)
(* mode is self.mode.  Both h and w come from epsilon.size(-2).  A level's *)
(* multiplier 0.75 ** i is kept as its exponent i.                         *)
(***************************************************************************)
InBand(size_range, h, w) ==
    \/ size_range.kind = "none"
    \/ (size_range.val[1] <= h /\ h <= size_range.val[2])
    \/ (size_range.val[1] <= w /\ w <= size_range.val[2])

RECURSIVE CascadeLoop(_, _, _, _, _)
CascadeLoop(size, levels, size_range, i, st) ==
    IF i >= levels THEN st
    ELSE LET h   == Height(size) \div Pow(2, i)
             w   == Height(size) \div Pow(2, i)
             st1 == IF InBand(size_range, h, w)
                    THEN [rng         |-> Advance(st.rng, 1),
                          draws       |-> Append(st.draws, <<Token("generator", st.rng), h, w>>),
                          multipliers |-> Append(st.multipliers, i)]
                    ELSE st
         IN  IF h <= 1 \/ w <= 1 THEN st1
             ELSE CascadeLoop(size, levels, size_range, i + 1, st1)

\* The body after the rank check: the counter, the draws and the loop.
CascadeBody(g1, b, grng) ==
    LET g2 == BumpLastSeed(g1)
        g3 == AfterDraws(g2, 1)
    IN  IF b.levels.kind = "none"
        THEN \* range(1, None)
             Result(g3, grng, "TypeError", NoField)
        ELSE LET st == CascadeLoop(g2.size, b.levels.val, b.size_range, 1,
                                   [rng |-> g3.generator, draws |-> <<>>, multipliers |-> <<0>>])
             IN  Result([g3 EXCEPT !.generator = st.rng], grng, "ok",
                        Field(g1.cls, g2.size, <<DrawOne(g2)>> \o st.draws,
                              [levels      |-> b.levels.val,
                               mode        |-> g2.attrs.mode,
                               size_range  |-> b.size_range,
                               multipliers |-> st.multipliers],
                              "theoretical"))

\* A variant that checks the rank after the body has run; not the code's order.
CascadeRankCheckLate(g, kwargs, grng) ==
    LET g1 == CallUpdate(g, kwargs)
        r  == CascadeBody(g1, Bind(g.cls, kwargs), grng)
    IN  IF Rank(g1.size) = 5
        THEN Result(r.gen, grng, "NotImplementedError", NoField)
        ELSE r

CascadeBPyramidNoiseGenerator_call(g, kwargs, grng) ==
    LET g1 == CallUpdate(g, kwargs)
    IN  IF Rank(g1.size) = 5
        THEN Result(g1, grng, "NotImplementedError", NoField)
        ELSE CascadeBody(g1, Bind(g.cls, kwargs), grng)

(***************************************************************************)
(* Uniform, Gaussian and backwards Gaussian                                *)
(***************************************************************************)
UniformNoiseGenerator_call(g, kwargs, grng) ==
    LET g1 == BumpLastSeed(CallUpdate(g, kwargs))
    IN  Result(AfterDraws(g1, 1), grng, "ok",
               Field(g.cls, g1.size, <<DrawOne(g1)>>,
                     [scale |-> g1.attrs.scale, mean |-> g1.attrs.mean], "none"))

GaussianNoiseGenerator_call(g, kwargs, grng) ==
    LET g1 == BumpLastSeed(CallUpdate(g, kwargs))
    IN  Result(AfterDraws(g1, 1), grng, "ok",
               Field(g.cls, g1.size, <<DrawOne(g1)>>, NoUsed, "meanstd"))

\* A variant that draws without re-seeding first.
GaussianBackwardsNoReseed(g, kwargs, grng) ==
    LET g1 == BumpLastSeed(CallUpdate(g, kwargs))
    IN  Result(AfterDraws(g1, 1), grng, "ok",
               Field(g.cls, g1.size, <<DrawOne(g1)>>, NoUsed, "meanstd"))

\* self.generator.manual_seed(self.generator.initial_seed() - 1), then the draw.
GaussianBackwardsNoiseGenerator_call(g, kwargs, grng) ==
    LET g1 == BumpLastSeed(CallUpdate(g, kwargs))
        g2 == [g1 EXCEPT !.generator = manual_seed(initial_seed(@) - 1)]
    IN  Result(AfterDraws(g2, 1), grng, "ok",
               Field(g.cls, g2.size, <<DrawOne(g2)>>, NoUsed, "meanstd"))

(***************************************************************************)
(* Laplace and Student-t: the second sample comes from the process-wide    *)
(* generator, seeded for the purpose and put back afterwards.              *)
(***************************************************************************)
\* A variant that samples from the process-wide generator as it finds it.
LaplaceSampleUnseeded(g, grng) == Token("global", grng)

\* torch.manual_seed(self.generator.initial_seed()); Laplace(...).rsample(self.size)
LaplaceSample(g, grng) == Token("global", manual_seed(initial_seed(g.generator)))

LaplacianNoiseGenerator_call(g, kwargs, grng) ==
    LET g1        == BumpLastSeed(CallUpdate(g, kwargs))
        noise     == DrawOne(g1)
        g2        == AfterDraws(g1, 1)
        rng_state == get_rng_state(grng)
        seeded    == torch_manual_seed(grng, initial_seed(g2.generator))
        laplacian == LaplaceSample(g2, grng)
        g3        == [g2 EXCEPT !.generator = manual_seed(initial_seed(@) + 1)]
    IN  Result(g3, set_rng_state(seeded, rng_state), "ok",
               Field(g.cls, g1.size, <<noise, laplacian>>,
                     [loc |-> g1.attrs.loc, scale |-> g1.attrs.scale], "std"))

StudentTNoiseGenerator_call(g, kwargs, grng) ==
    LET g1        == BumpLastSeed(CallUpdate(g, kwargs))
        rng_state == get_rng_state(grng)
        seeded    == torch_manual_seed(grng, initial_seed(g1.generator))
        noise     == Token("global", manual_seed(initial_seed(g1.generator)))
        g2        == IF g1.cls # "BrownianNoiseGenerator" THEN BumpLastSeed(g1) ELSE g1
        g3        == [g2 EXCEPT !.generator = manual_seed(initial_seed(@) + 1)]
    IN  Result(g3, set_rng_state(seeded, rng_state), "ok",
               Field(g.cls, g1.size, <<noise>>,
                     [loc |-> g1.attrs.loc, scale |-> g1.attrs.scale, df |-> g1.attrs.df],
                     "meanstd"))

(***************************************************************************)
(* Wavelet                                                                 *)
(***************************************************************************)
WaveletNoiseGenerator_call(g, kwargs, grng) ==
    LET g1 == BumpLastSeed(CallUpdate(g, kwargs))
    IN  Result(AfterDraws(g1, 1), grng, "ok",
               Field(g.cls, g1.size, <<DrawOne(g1)>>, [wavelet |-> g1.attrs.wavelet], "meanstd"))

(***************************************************************************)
(* PerlinNoiseGenerator.perlin_noise.  The two divisibility checks are the *)
(* ShapeMismatch condition.  Past them, a block width of 0 reaches         *)
(* positions.view(1, bh * bw, -1, 2) on an empty tensor, which is torch's  *)
(* to decide: torchView is what the build does there.                      *)
(***************************************************************************)
TorchViews == {"RuntimeError", "empty"}

Squeeze0(shape) == IF shape[1] = 1 THEN Tail(shape) ELSE shape

perlin_noise(rng, grid_shape, out_shape, batch_size, torchView) ==
    LET gh == grid_shape[1]
        gw == grid_shape[2]
        oh == out_shape[1]
        ow == out_shape[2]
        bh == oh \div gh
        bw == ow \div gw
        raised == [outcome |-> "ShapeMismatch", rng |-> rng, draws |-> <<>>, shape |-> <<>>]
    IN  IF oh # bh * gh THEN raised
        ELSE IF ow # bw * gw /\ bw * gw # 0 THEN raised
        ELSE IF bh * bw = 0 /\ torchView = "RuntimeError"
             THEN [outcome |-> "RuntimeError", rng |-> Advance(rng, 1),
                   draws |-> <<Token("generator", rng)>>, shape |-> <<>>]
             ELSE [outcome |-> "ok", rng |-> Advance(rng, 1),
                   draws |-> <<Token("generator", rng)>>,
                   shape |-> Squeeze0(<<batch_size, gh * bh, gw * bw>>)]

(***************************************************************************)
(* PerlinNoiseGenerator.__call__: a Gaussian draw, then two octaves of     *)
(* perlin_noise((h, w), (h, w)) for the image, or for each time slice tt.  *)
(* An octave is kept with the slice it was added to (0 for an image).      *)
(***************************************************************************)
\* A variant that draws the two octaves once and adds them to every slice.
PerlinOctavesShared(size, slices, n, st) ==
    [rng   |-> Advance(st.rng, 2),
     draws |-> [j \in 1..(2 * Len(slices)) |->
                  <<Token("generator", Advance(st.rng, (j - 1) % 2)), slices[((j - 1) \div 2) + 1]>>]]

RECURSIVE PerlinOctaves(_, _, _, _)
PerlinOctaves(size, slices, n, st) ==
    IF n = Len(slices) * 2 THEN st
    ELSE LET hw == <<Height(size), Width(size)>>
             r  == perlin_noise(st.rng, hw, hw, size[2], "RuntimeError")
         IN  PerlinOctaves(size, slices, n + 1,
                 [rng   |-> r.rng,
                  draws |-> Append(st.draws, <<r.draws[1], slices[(n \div 2) + 1]>>)])

PerlinNoiseGenerator_call(g, kwargs, grng) ==
    LET g1     == BumpLastSeed(CallUpdate(g, kwargs))
        slices == IF Rank(g1.size) = 5 THEN [tt \in 1..Frames(g1.size) |-> tt] ELSE <<0>>
        st     == PerlinOctaves(g1.size, slices, 0,
                                [rng |-> Advance(g1.generator, 1), draws |-> <<>>])
    IN  IF Rank(g1.size) = 5 /\ g1.size[2] = 1 /\ Height(g1.size) # 1
        THEN \* One channel: .squeeze(0) has dropped the channel axis of the
             \* first octave, and the in-place add to the slice cannot
             \* broadcast (1, h, 1, w) into (b, 1, 1, h, w).
             Result([g1 EXCEPT !.generator = Advance(@, 2)], grng, "RuntimeError", NoField)
        ELSE Result([g1 EXCEPT !.generator = st.rng], grng, "ok",
                    Field(g.cls, g1.size, <<DrawOne(g1)>> \o st.draws, NoUsed, "std"))

(***************************************************************************)
(* Calling an instance: Python's dispatch on the instance's class.         *)
(***************************************************************************)
Call(g, kwargs, grng) ==
    CASE g.cls = "NoiseGenerator" -> NoiseGenerator_call(g, kwargs, grng)
      [] g.cls = "BrownianNoiseGenerator" -> BrownianNoiseGenerator_call(g, kwargs, grng)
      [] g.cls = "FractalNoiseGenerator" -> FractalNoiseGenerator_call(g, kwargs, grng)
      [] g.cls = "SimplexNoiseGenerator" -> SimplexNoiseGenerator_call(g, kwargs, grng)
      [] g.cls = "HiresPyramidNoiseGenerator" -> HiresPyramidNoiseGenerator_call(g, kwargs, grng)
      [] g.cls = "PyramidNoiseGenerator" -> PyramidNoiseGenerator_call(g, kwargs, grng)
      [] g.cls = "InterpolatedPyramidNoiseGenerator" ->
            InterpolatedPyramidNoiseGenerator_call(g, kwargs, grng)
      [] g.cls = "CascadeBPyramidNoiseGenerator" ->
            CascadeBPyramidNoiseGenerator_call(g, kwargs, grng)
      [] g.cls = "UniformNoiseGenerator" -> UniformNoiseGenerator_call(g, kwargs, grng)
      [] g.cls = "GaussianNoiseGenerator" -> GaussianNoiseGenerator_call(g, kwargs, grng)
      [] g.cls = "GaussianBackwardsNoiseGenerator" ->
            GaussianBackwardsNoiseGenerator_call(g, kwargs, grng)
      [] g.cls = "LaplacianNoiseGenerator" -> LaplacianNoiseGenerator_call(g, kwargs, grng)
      [] g.cls = "StudentTNoiseGenerator" -> StudentTNoiseGenerator_call(g, kwargs, grng)
      [] g.cls = "WaveletNoiseGenerator" -> WaveletNoiseGenerator_call(g, kwargs, grng)
      [] g.cls = "PerlinNoiseGenerator" -> PerlinNoiseGenerator_call(g, kwargs, grng)

(***************************************************************************)
(* The arguments the model passes.  A parameter is passed its alternative  *)
(* value, passed None, or omitted.                                         *)
(***************************************************************************)
AltValue(name) ==
    CASE name = "levels" -> 2
      [] name = "size_range" -> <<2, 8>>
      [] name = "mode" -> "bilinear"
      [] name = "wavelet" -> "db2"
      [] OTHER -> "2.0"

\* All kwargs over a subset of names, each name passed one of the kinds.
KwargsOver(names, kinds) ==
    UNION { { [n \in S |-> IF k[n] = "none" THEN NoneArg ELSE Val(AltValue(n))]
                : k \in [S -> kinds] }
            : S \in SUBSET names }

InitKwargs(cls) == KwargsOver(DOMAIN InitDefaults(cls), {"value"})

\* The base class has no named parameter: the model passes it a sigma, as
\* prepare_noise passes every generator.
CallKwargs(cls) ==
    IF cls = "NoiseGenerator" THEN KwargsOver({"sigma"}, {"none", "value"})
    ELSE KwargsOver(DOMAIN CallDefaults(cls), {"none", "value"})

(***************************************************************************)
(* Spec: one instance is constructed and then called.                      *)
(***************************************************************************)
NoCall == [n |-> 0, ok |-> 0, failed |-> 0]
Idle == [pc |-> "idle"]

DefaultGlobal == manual_seed(0)

\* The process-wide state of a build with an accelerator, as some earlier
\* code has seeded it.
CudaGlobal == [seed |-> 0, pos |-> 0, cuda |-> manual_seed(7)]

Init ==
    /\ gen = NoGen
    /\ lastcall = NoCall
    /\ globalRng \in {DefaultGlobal, CudaGlobal}
    /\ twin = Idle
    /\ pn = Idle
    /\ pl = Idle
    /\ nz = Idle
    /\ ct = Idle
    /\ rg = Idle
    /\ fr = Idle

DoConstruct ==
    /\ ~gen.constructed
    /\ \E cls \in Classes, size \in Sizes, seed \in Seeds :
         \E params \in InitKwargs(cls) :
            gen' = Construct(cls, Tensor(size), seed, params)
    /\ UNCHANGED <<lastcall, globalRng, twin, pn, pl, nz, ct, rg, fr>>

DoCall ==
    /\ gen.constructed
    /\ lastcall.n < MaxCalls
    /\ \E kwargs \in CallKwargs(gen.cls) :
         LET r == Call(gen, kwargs, globalRng)
         IN  /\ gen' = r.gen
             /\ globalRng' = r.global
             /\ lastcall' = [n       |-> lastcall.n + 1,
                             ok      |-> lastcall.ok + (IF r.outcome = "ok" THEN 1 ELSE 0),
                             failed  |-> lastcall.failed + (IF r.outcome = "ok" THEN 0 ELSE 1),
                             kwargs  |-> kwargs,
                             before  |-> gen,
                             globalBefore |-> globalRng,
                             outcome |-> r.outcome,
                             field   |-> r.field]
    /\ UNCHANGED <<twin, pn, pl, nz, ct, rg, fr>>

Next == DoConstruct \/ DoCall

Spec == Init /\ [][Next]_vars

(***************************************************************************)
(* Properties of one instance (Spec).                                      *)
(***************************************************************************)
Called == lastcall.n > 0

\* The parameters of the instance's class that a call can override.
Overridable(g) == DOMAIN CallDefaults(g.cls) \cap DOMAIN g.attrs

NotSupplied(kwargs, p) == p \notin DOMAIN kwargs \/ kwargs[p].kind = "none"

\* What the synthesis read for parameter p (size_range may be read as None).
UsedValue(field, p) == IF p = "size_range" THEN field.used[p] ELSE Val(field.used[p])

\* C1: a parameter that a call omits, or passes as None, keeps the value it
\* had before the call, and the call's synthesis runs with that value; for
\* every class, Cascade-B's levels, mode and size_range included.
C1_NotSuppliedKeepsAndUses ==
    Called =>
        \A p \in Overridable(lastcall.before) :
            NotSupplied(lastcall.kwargs, p) =>
                /\ gen.attrs[p] = lastcall.before.attrs[p]
                /\ (lastcall.outcome = "ok" /\ p \in DOMAIN lastcall.field.used)
                      => UsedValue(lastcall.field, p) = Val(lastcall.before.attrs[p])

\* The increment of last_seed per successful call that C5 states, and the
\* one the classes make.
ClaimedStep(cls) ==
    IF cls \in {"StudentTNoiseGenerator", "LaplacianNoiseGenerator"} THEN 2 ELSE 1

ObservedStep(cls) ==
    CASE cls = "StudentTNoiseGenerator" -> 2
      [] cls = "BrownianNoiseGenerator" -> 0
      [] OTHER -> 1

\* C5 as stated: after n successful calls last_seed has grown by n, and by
\* 2n for Student-t and Laplace.
C5_CounterAsClaimed ==
    (gen.constructed /\ lastcall.failed = 0) =>
        gen.last_seed = gen.seed + ClaimedStep(gen.cls) * lastcall.ok

\* C5 amended: after n successful calls last_seed has grown by n for every
\* class, Laplace included, except Student-t (2n) and Brownian (0).
C5_CounterPerCall ==
    (gen.constructed /\ lastcall.failed = 0) =>
        gen.last_seed = gen.seed + ObservedStep(gen.cls) * lastcall.ok

C5_Witness ==
    /\ gen.constructed
    /\ gen.cls = "LaplacianNoiseGenerator"
    /\ lastcall.failed = 0
    /\ lastcall.ok = 2
    /\ gen.last_seed = gen.seed + 2

\* C9: a call of a Cascade-B instance whose shape has 5 dimensions raises
\* NotImplementedError with no draw taken from any generator and last_seed
\* as it was; on a shape of 4 dimensions the call never raises it.
C9_CascadeRank ==
    (Called /\ lastcall.before.cls = "CascadeBPyramidNoiseGenerator") =>
        IF Rank(lastcall.before.size) = 5
        THEN /\ lastcall.outcome = "NotImplementedError"
             /\ gen.generator = lastcall.before.generator
             /\ gen.last_seed = lastcall.before.last_seed
             /\ globalRng = lastcall.globalBefore
        ELSE lastcall.outcome # "NotImplementedError"

C9_Witness ==
    /\ Called
    /\ lastcall.before.cls = "CascadeBPyramidNoiseGenerator"
    /\ Rank(lastcall.before.size) = 5
    /\ lastcall.outcome = "NotImplementedError"
    /\ lastcall.n = 2

\* C10: a call of an instance of the base class raises NotImplementedError
\* whatever keyword arguments are passed, and leaves the instance as it was.
C10_BaseUnimplemented ==
    (Called /\ lastcall.before.cls = "NoiseGenerator") =>
        /\ lastcall.outcome = "NotImplementedError"
        /\ gen = lastcall.before

(***************************************************************************)
(* TwinSpec: two instances a and b are constructed from the same arguments *)
(* and called in rounds, the k-th call of b with the arguments of the k-th *)
(* call of a, while other code of the process draws from and seeds the     *)
(* process-wide generator at any moment.  ra and rb are the last call of   *)
(* each instance.                                                          *)
(***************************************************************************)
TwinSizes == {<<1, 1, 2, 2>>, <<1, 1, 2, 2, 2>>}

AllAlt(names) == [n \in names |-> Val(AltValue(n))]

TwinInitKwargs(cls) == {NoKwargs, AllAlt(DOMAIN InitDefaults(cls))}

TwinCallKwargs(cls) ==
    IF cls = "NoiseGenerator" THEN {NoKwargs, AllAlt({"sigma"})}
    ELSE {NoKwargs, AllAlt(DOMAIN CallDefaults(cls))}

TwinInit ==
    /\ gen = NoGen
    /\ lastcall = NoCall
    /\ globalRng = DefaultGlobal
    /\ twin = [pc |-> "new"]
    /\ pn = Idle
    /\ pl = Idle
    /\ nz = Idle
    /\ ct = Idle
    /\ rg = Idle
    /\ fr = Idle

NoRecord == [none |-> TRUE]

TwinConstruct ==
    /\ twin.pc = "new"
    /\ \E cls \in Classes, size \in TwinSizes, seed \in Seeds :
         \E params \in TwinInitKwargs(cls) :
            twin' = [pc |-> "built",
                     a  |-> Construct(cls, Tensor(size), seed, params),
                     b  |-> Construct(cls, Tensor(size), seed, params),
                     na |-> 0,
                     nb |-> 0,
                     ra |-> NoRecord,
                     rb |-> NoRecord]
    /\ UNCHANGED <<gen, lastcall, globalRng, pn, pl, nz, ct, rg, fr>>

CallRecord(kwargs, r, grng) ==
    [kwargs |-> kwargs, outcome |-> r.outcome, field |-> r.field, globalAt |-> grng]

\* The next call of a.
TwinCallA ==
    /\ twin.pc = "built"
    /\ twin.na = twin.nb
    /\ twin.na < MaxCalls
    /\ \E kwargs \in TwinCallKwargs(twin.a.cls) :
         LET r == Call(twin.a, kwargs, globalRng)
         IN  /\ twin' = [twin EXCEPT !.a = r.gen, !.na = @ + 1,
                                     !.ra = CallRecord(kwargs, r, globalRng)]
             /\ globalRng' = r.global
    /\ UNCHANGED <<gen, lastcall, pn, pl, nz, ct, rg, fr>>

\* The same call of b, some time later.
TwinCallB ==
    /\ twin.pc = "built"
    /\ twin.nb < twin.na
    /\ LET r == Call(twin.b, twin.ra.kwargs, globalRng)
       IN  /\ twin' = [twin EXCEPT !.b = r.gen, !.nb = @ + 1,
                                   !.rb = CallRecord(twin.ra.kwargs, r, globalRng)]
           /\ globalRng' = r.global
    /\ UNCHANGED <<gen, lastcall, pn, pl, nz, ct, rg, fr>>

\* Other code draws from the process-wide generator.
GlobalDraw ==
    /\ globalRng.pos < MaxGlobalPos
    /\ globalRng' = Advance(globalRng, 1)
    /\ UNCHANGED <<gen, lastcall, twin, pn, pl, nz, ct, rg, fr>>

\* Other code calls torch.manual_seed.
GlobalSeed ==
    /\ \E s \in Seeds : globalRng' = torch_manual_seed(globalRng, s)
    /\ UNCHANGED <<gen, lastcall, twin, pn, pl, nz, ct, rg, fr>>

TwinNext == TwinConstruct \/ TwinCallA \/ TwinCallB \/ GlobalDraw \/ GlobalSeed

TwinSpec == TwinInit /\ [][TwinNext]_vars

\* Both instances have made their k-th call, for some k >= 1.
RoundDone == twin.pc = "built" /\ twin.na = twin.nb /\ twin.na > 0

\* C6: two instances of one class, constructed with the same seed, shape
\* and parameters and called with the same arguments, end their k-th calls
\* the same way and return the same field, for every k, whatever state the
\* process-wide generator is in when each call is made.
C6_Deterministic ==
    RoundDone =>
        /\ twin.ra.outcome = twin.rb.outcome
        /\ twin.ra.field = twin.rb.field

\* The second calls of two Laplace instances, made under different states
\* of the process-wide generator, returned the same field.
C6_Witness ==
    /\ RoundDone
    /\ twin.a.cls = "LaplacianNoiseGenerator"
    /\ twin.na = 2
    /\ twin.ra.globalAt # twin.rb.globalAt
    /\ twin.ra.outcome = "ok"
    /\ twin.ra.field = twin.rb.field

(***************************************************************************)
(* The registry.  An entry is a class and the keyword defaults that        *)
(* noise_generator_factory binds to it.                                    *)
(***************************************************************************)
Entry(cls, fixed) == [cls |-> cls, fixed |-> fixed]

Plain(cls) == Entry(cls, NoKwargs)

noise_generator_factory(cls, name, value) == Entry(cls, [n \in {name} |-> Val(value)])

NOISE_GENERATOR_CLASSES ==
    ("fractal" :> Plain("FractalNoiseGenerator"))
    @@ ("gaussian" :> Plain("GaussianNoiseGenerator"))
    @@ ("gaussian_backwards" :> Plain("GaussianBackwardsNoiseGenerator"))
    @@ ("uniform" :> Plain("UniformNoiseGenerator"))
    @@ ("pyramid-cascade_B" :> Plain("CascadeBPyramidNoiseGenerator"))
    @@ ("pyramid-interpolated" :> Plain("InterpolatedPyramidNoiseGenerator"))
    @@ ("pyramid-bilinear" :> noise_generator_factory("PyramidNoiseGenerator", "mode", "bilinear"))
    @@ ("pyramid-bicubic" :> noise_generator_factory("PyramidNoiseGenerator", "mode", "bicubic"))
    @@ ("pyramid-nearest" :> noise_generator_factory("PyramidNoiseGenerator", "mode", "nearest"))
    @@ ("hires-pyramid-bilinear" :> noise_generator_factory("HiresPyramidNoiseGenerator", "mode", "bilinear"))
    @@ ("hires-pyramid-bicubic" :> noise_generator_factory("HiresPyramidNoiseGenerator", "mode", "bicubic"))
    @@ ("hires-pyramid-nearest" :> noise_generator_factory("HiresPyramidNoiseGenerator", "mode", "nearest"))
    @@ ("brownian" :> Plain("BrownianNoiseGenerator"))
    @@ ("laplacian" :> Plain("LaplacianNoiseGenerator"))
    @@ ("studentt" :> Plain("StudentTNoiseGenerator"))
    @@ ("wavelet" :> Plain("WaveletNoiseGenerator"))
    @@ ("perlin" :> Plain("PerlinNoiseGenerator"))

NOISE_GENERATOR_NAMES == DOMAIN NOISE_GENERATOR_CLASSES

\* create_instance(**kwargs): params = {**fixed_params, **kwargs}; cls(**params),
\* for the keywords prepare_noise passes (x, seed and the sigma range).
CreateInstance(noise_type, x, seed) ==
    LET e == NOISE_GENERATOR_CLASSES[noise_type]
    IN  Construct(e.cls, x, seed, e.fixed)

(***************************************************************************)
(* numpy.unique(noise_inds, return_inverse=True): the sorted distinct      *)
(* values, and for each position of noise_inds the place of its value      *)
(* among them (counted from 1 here, from 0 in numpy).                      *)
(***************************************************************************)
RECURSIVE SortedSeq(_)
SortedSeq(S) ==
    IF S = {} THEN <<>>
    ELSE LET m == CHOOSE x \in S : \A y \in S : x <= y
         IN  <<m>> \o SortedSeq(S \ {m})

Range(seq) == {seq[p] : p \in 1..Len(seq)}

unique(noise_inds) == SortedSeq(Range(noise_inds))

\* A variant that sends every position to the first distinct index.
inverseFirst(noise_inds) == [p \in 1..Len(noise_inds) |-> 1]

inverse(noise_inds) ==
    [p \in 1..Len(noise_inds) |->
        CHOOSE j \in 1..Len(unique(noise_inds)) : unique(noise_inds)[j] = noise_inds[p]]

\* A variant that runs the loop once per distinct index.
LoopCountPerUnique(unique_inds) == Len(unique_inds)

\* range(unique_inds[-1] + 1)
LoopCount(unique_inds) == unique_inds[Len(unique_inds)] + 1

\* The size override of the per-index calls: [1] + list(latent_image.size())[1:]
SingleSampleSize(latent_image) == <<1>> \o Tail(latent_image.shape)

PerIndexKwargs(latent_image) ==
    [size   |-> Val(SingleSampleSize(latent_image)),
     dtype  |-> Val(latent_image.dtype),
     layout |-> Val(latent_image.layout),
     device |-> Val(latent_image.device)]

WholeBatchKwargs == [sigma |-> Val("14.614642"), sigma_next |-> Val("0.0291675")]

\* latent_image[i:i+1]
Slice1(latent_image) == [latent_image EXCEPT !.shape = <<1>> \o Tail(@)]

\* The batch items of a field returned by invocation inv: torch.cat along
\* axis 0 lays them out one after the other.
Items(inv, field) == [r \in 1..field.shape[1] |-> <<inv, r>>]

RECURSIVE Cat(_)
Cat(list) == IF list = <<>> THEN <<>> ELSE Items(Head(list).inv, Head(list).field) \o Cat(Tail(list))

\* slerp of ..latents, as the spec gives its contract: the blend of two
\* fields at factor t (in percent), the first at 0 and the second at 100.
slerp(a, b, t) ==
    IF t = 0 THEN a
    ELSE IF t = 100 THEN b
    ELSE [blend |-> <<a, b, t>>]

(***************************************************************************)
(* PrepareSpec: one run of prepare_noise, a step per generator invocation. *)
(***************************************************************************)
MaxIndex == 1       \* largest index in noise_inds
MaxInds == 3        \* length of noise_inds

LatentShapes == {<<b, 1, 2, 2>> : b \in 1..MaxBatch} \cup {<<1, 1, 2, 2, 2>>}

IndexLists == UNION {[1..n -> 0..MaxIndex] : n \in 1..MaxInds}

\* (var_seed, var_strength), the strength in percent.
VarConfigs == {<<NoneArg, 0>>, <<Val(7), 0>>, <<Val(7), 50>>}

PrepareArgs ==
    { [latent_image |-> Tensor(shape), seed |-> 42, noise_type |-> t, noise_inds |-> inds,
       alpha |-> "1.0", k |-> "1.0", var_seed |-> v[1], var_strength |-> v[2]]
        : shape \in LatentShapes, t \in NOISE_GENERATOR_NAMES,
          inds \in {NoneArg} \cup {Val(l) : l \in IndexLists}, v \in VarConfigs }

PrepareStart(args) ==
    [pc |-> "start", args |-> args, noise_func |-> NoGen, unique_inds |-> <<>>,
     inverse |-> <<>>, i |-> 0, noises |-> <<>>, shapes |-> <<>>, invocations |-> 0,
     looped |-> FALSE, var_noises |-> <<>>, result |-> NoField, error |-> "none"]

PrepareInit ==
    /\ gen = NoGen
    /\ lastcall = NoCall
    /\ globalRng = DefaultGlobal
    /\ twin = Idle
    /\ pn \in {PrepareStart(args) : args \in PrepareArgs}
    /\ pl = Idle
    /\ nz = Idle
    /\ ct = Idle
    /\ rg = Idle
    /\ fr = Idle

\* The constructor call followed by the fractal overrides (noise_func.alpha = alpha; .k = k).
MakeGenerator(args, x, seed) ==
    LET g == CreateInstance(args.noise_type, x, seed)
    IN  IF args.noise_type = "fractal"
        THEN [g EXCEPT !.attrs = SetAttr(SetAttr(@, "alpha", args.alpha), "k", args.k)]
        ELSE g

\* A variant that blends whenever a variation seed is given.
VariesWhenSeeded(args) == args.var_seed.kind = "value"

\* var_seed is not None and var_strength > 0.0
Varies(args) == args.var_seed.kind = "value" /\ args.var_strength > 0

Raised(p, error) == [p EXCEPT !.pc = "raised", !.error = error]

\* Lines 689-696 and, on the index path, 725-726.
PN_Construct ==
    /\ pn.pc = "start"
    /\ LET g == MakeGenerator(pn.args, pn.args.latent_image, pn.args.seed)
       IN  IF pn.args.noise_inds.kind = "none"
           THEN pn' = [pn EXCEPT !.pc = "whole", !.noise_func = g]
           ELSE pn' = [pn EXCEPT !.pc = "loop", !.noise_func = g,
                                 !.unique_inds = unique(pn.args.noise_inds.val),
                                 !.inverse = inverse(pn.args.noise_inds.val)]
    /\ UNCHANGED <<gen, lastcall, globalRng, twin, pl, nz, ct, rg, fr>>

\* Line 697: one invocation for the whole batch; lines 700-701, 723.
PN_Whole ==
    /\ pn.pc = "whole"
    /\ LET r == Call(pn.noise_func, WholeBatchKwargs, globalRng)
       IN  /\ globalRng' = r.global
           /\ IF r.outcome # "ok"
              THEN pn' = Raised([pn EXCEPT !.noise_func = r.gen, !.invocations = @ + 1], r.outcome)
              ELSE LET p1 == [pn EXCEPT !.noise_func = r.gen, !.invocations = @ + 1,
                                        !.shapes = Append(@, r.field.shape),
                                        !.noises = <<[inv |-> <<"base", 0>>, field |-> r.field]>>]
                   IN  IF Varies(pn.args)
                       THEN pn' = [p1 EXCEPT !.pc = "varwhole", !.i = 0]
                       ELSE pn' = [p1 EXCEPT !.pc = "done", !.result = Cat(p1.noises)]
    /\ UNCHANGED <<gen, lastcall, twin, pl, nz, ct, rg, fr>>

\* Lines 705-714: the variation field of batch item i.
PN_VarWhole ==
    /\ pn.pc = "varwhole"
    /\ pn.i < pn.noises[1].field.shape[1]
    /\ LET g == MakeGenerator(pn.args, Slice1(pn.args.latent_image), pn.args.var_seed.val + pn.i)
           r == Call(g, WholeBatchKwargs, globalRng)
       IN  /\ globalRng' = r.global
           /\ IF r.outcome # "ok"
              THEN pn' = Raised(pn, r.outcome)
              ELSE pn' = [pn EXCEPT !.i = @ + 1,
                                    !.var_noises = Append(@, [inv |-> <<"var", pn.i>>, field |-> r.field])]
    /\ UNCHANGED <<gen, lastcall, twin, pl, nz, ct, rg, fr>>

\* Lines 716-721.
PN_BlendWhole ==
    /\ pn.pc = "varwhole"
    /\ pn.i >= pn.noises[1].field.shape[1]
    /\ pn' = [pn EXCEPT !.pc = "done",
                        !.result = slerp(Cat(pn.noises), Cat(pn.var_noises), pn.args.var_strength)]
    /\ UNCHANGED <<gen, lastcall, globalRng, twin, pl, nz, ct, rg, fr>>

\* Lines 727-730: iteration i of the loop.
PN_Loop ==
    /\ pn.pc = "loop"
    /\ pn.i < LoopCount(pn.unique_inds)
    /\ LET r == Call(pn.noise_func, PerIndexKwargs(pn.args.latent_image), globalRng)
       IN  /\ globalRng' = r.global
           /\ IF r.outcome # "ok"
              THEN pn' = Raised([pn EXCEPT !.noise_func = r.gen, !.invocations = @ + 1], r.outcome)
              ELSE pn' = [pn EXCEPT !.noise_func = r.gen, !.invocations = @ + 1,
                                    !.i = @ + 1,
                                    !.shapes = Append(@, r.field.shape),
                                    !.noises = IF pn.i \in Range(pn.unique_inds)
                                               THEN Append(@, [inv |-> <<"base", pn.i>>, field |-> r.field])
                                               ELSE @]
    /\ UNCHANGED <<gen, lastcall, twin, pl, nz, ct, rg, fr>>

\* Lines 731-735 and 756: noises = [noises[i] for i in inverse], torch.cat.
PN_Assemble ==
    /\ pn.pc = "loop"
    /\ pn.i >= LoopCount(pn.unique_inds)
    /\ IF \E p \in 1..Len(pn.inverse) : pn.inverse[p] > Len(pn.noises)
       THEN pn' = Raised([pn EXCEPT !.looped = TRUE], "IndexError")
       ELSE LET p1 == [pn EXCEPT !.looped = TRUE,
                                 !.noises = [p \in 1..Len(pn.inverse) |-> pn.noises[pn.inverse[p]]]]
            IN  IF Varies(pn.args)
                THEN pn' = [p1 EXCEPT !.pc = "var", !.i = 1]
                ELSE pn' = [p1 EXCEPT !.pc = "done", !.result = Cat(p1.noises)]
    /\ UNCHANGED <<gen, lastcall, globalRng, twin, pl, nz, ct, rg, fr>>

\* Lines 737-746: the variation field of the i-th distinct index.
PN_Var ==
    /\ pn.pc = "var"
    /\ pn.i <= Len(pn.unique_inds)
    /\ LET g == MakeGenerator(pn.args, pn.args.latent_image,
                              pn.args.var_seed.val + pn.unique_inds[pn.i])
           r == Call(g, PerIndexKwargs(pn.args.latent_image), globalRng)
       IN  /\ globalRng' = r.global
           /\ IF r.outcome # "ok"
              THEN pn' = Raised(pn, r.outcome)
              ELSE pn' = [pn EXCEPT !.i = @ + 1,
                                    !.var_noises = Append(@, [inv |-> <<"var", pn.unique_inds[pn.i]>>,
                                                              field |-> r.field])]
    /\ UNCHANGED <<gen, lastcall, twin, pl, nz, ct, rg, fr>>

\* Lines 748-754.
PN_Blend ==
    /\ pn.pc = "var"
    /\ pn.i > Len(pn.unique_inds)
    /\ LET vs == [p \in 1..Len(pn.inverse) |-> pn.var_noises[pn.inverse[p]]]
       IN  pn' = [pn EXCEPT !.pc = "done", !.var_noises = vs,
                            !.result = slerp(Cat(pn.noises), Cat(vs), pn.args.var_strength)]
    /\ UNCHANGED <<gen, lastcall, globalRng, twin, pl, nz, ct, rg, fr>>

PrepareNext ==
    \/ PN_Construct
    \/ PN_Whole
    \/ PN_VarWhole
    \/ PN_BlendWhole
    \/ PN_Loop
    \/ PN_Assemble
    \/ PN_Var
    \/ PN_Blend

PrepareSpec == PrepareInit /\ [][PrepareNext]_vars

(***************************************************************************)
(* Properties of prepare_noise on the index path (PrepareSpec).            *)
(***************************************************************************)
MaxOf(seq) == CHOOSE m \in Range(seq) : \A y \in Range(seq) : y <= m

\* The run has returned from the index path.
IndexDone == pn.pc = "done" /\ pn.args.noise_inds.kind = "value"

\* The loop of lines 727-730 has run to its end.
LoopOver == pn.looped \/ (pn.pc = "loop" /\ pn.i >= LoopCount(pn.unique_inds))

\* C2: with an index list of length n and a latent of shape (B, C, H, W),
\* every per-index invocation returns a field of shape (1, C, H, W), and
\* the batch returned has exactly n items.
C2_SingleSampleFields ==
    (IndexDone /\ Rank(pn.args.latent_image.shape) = 4) =>
        /\ \A n \in 1..Len(pn.shapes) : pn.shapes[n] = SingleSampleSize(pn.args.latent_image)
        /\ Len(Cat(pn.noises)) = Len(pn.args.noise_inds.val)

\* C3 as stated: the base generator is invoked once per distinct index
\* value, whatever the values are.
C3_OncePerDistinctIndex ==
    LoopOver => pn.invocations = Cardinality(Range(pn.args.noise_inds.val))

\* C3 amended: the base generator is invoked once for every integer from 0
\* to the largest index, max + 1 times in all, and the fields kept are one
\* per distinct index value.
C3_OncePerIndexUpToMax ==
    /\ LoopOver => pn.invocations = MaxOf(pn.args.noise_inds.val) + 1
    /\ (pn.pc = "loop" /\ pn.i >= LoopCount(pn.unique_inds)) =>
            Len(pn.noises) = Cardinality(Range(pn.args.noise_inds.val))

\* The list [1, 1]: two invocations, one distinct index.
C3_Witness ==
    /\ IndexDone
    /\ pn.args.noise_inds.val = <<1, 1>>
    /\ pn.invocations = 2
    /\ Len(pn.unique_inds) = 1

\* C4: without variation blending, the items at positions p and q of the
\* batch returned are the same field of the same invocation exactly when
\* noise_inds[p] = noise_inds[q], and come from different invocations
\* otherwise.
C4_SameFieldIffSameIndex ==
    (IndexDone /\ ~Varies(pn.args)) =>
        \A p, q \in 1..Len(pn.args.noise_inds.val) :
            /\ (pn.result[p] = pn.result[q])
                  <=> (pn.args.noise_inds.val[p] = pn.args.noise_inds.val[q])
            /\ (pn.args.noise_inds.val[p] # pn.args.noise_inds.val[q])
                  => pn.result[p][1] # pn.result[q][1]

(***************************************************************************)
(* PerlinSpec: one application of perlin_noise to a grid shape and an      *)
(* output shape, on a generator seeded at construction.                    *)
(***************************************************************************)
MaxGrid == 3

GridShapes == (1..MaxGrid) \X (1..MaxGrid)

PerlinInit ==
    /\ gen = NoGen
    /\ lastcall = NoCall
    /\ globalRng = DefaultGlobal
    /\ twin = Idle
    /\ pn = Idle
    /\ pl \in {[pc |-> "start", grid_shape |-> gs, out_shape |-> os,
                batch_size |-> c, generator |-> manual_seed(seed)] :
                   gs \in GridShapes, os \in GridShapes, c \in 1..MaxBatch, seed \in Seeds}
    /\ nz = Idle
    /\ ct = Idle
    /\ rg = Idle
    /\ fr = Idle

PL_Apply ==
    /\ pl.pc = "start"
    /\ \E torchView \in TorchViews :
          LET r == perlin_noise(pl.generator, pl.grid_shape, pl.out_shape,
                                pl.batch_size, torchView)
          IN  pl' = [pc |-> "done", grid_shape |-> pl.grid_shape, out_shape |-> pl.out_shape,
                     batch_size |-> pl.batch_size, generator |-> r.rng,
                     before |-> pl.generator, outcome |-> r.outcome, shape |-> r.shape]
    /\ UNCHANGED <<gen, lastcall, globalRng, twin, pn, nz, ct, rg, fr>>

PerlinNext == PL_Apply

PerlinSpec == PerlinInit /\ [][PerlinNext]_vars

ExactMultiples(grid_shape, out_shape) ==
    /\ out_shape[1] % grid_shape[1] = 0
    /\ out_shape[2] % grid_shape[2] = 0

\* C8: perlin_noise ends in ShapeMismatch for every pair of shapes in which
\* the output height or the output width is not an exact multiple of the
\* grid's, grids larger than the output included, and it succeeds when both
\* are exact multiples.
C8_ShapeMismatchIffNotMultiple ==
    pl.pc = "done" =>
        IF ExactMultiples(pl.grid_shape, pl.out_shape)
        THEN pl.outcome = "ok"
        ELSE pl.outcome = "ShapeMismatch" /\ pl.generator = pl.before

(***************************************************************************)
(* NormSpec: the last statement of a __call__, applied to the tensor the   *)
(* synthesis has produced.  A tensor is a sequence of batch items, each a  *)
(* sequence of integers; the statement's result is kept exactly, as        *)
(* integer numerators num over one common divisor sqrt(dn / dd).           *)
(***************************************************************************)
RawValues == {-1, 0, 1}

NormSizes == {<<b, 1, 2, 1>> : b \in 1..MaxBatch}

RECURSIVE Sum(_)
Sum(seq) == IF seq = <<>> THEN 0 ELSE Head(seq) + Sum(Tail(seq))

RECURSIVE SumSq(_)
SumSq(seq) == IF seq = <<>> THEN 0 ELSE Head(seq) * Head(seq) + SumSq(Tail(seq))

RECURSIVE Flatten(_)
Flatten(items) == IF items = <<>> THEN <<>> ELSE Head(items) \o Flatten(Tail(items))

RECURSIVE Numel(_)
Numel(shape) == IF shape = <<>> THEN 1 ELSE Head(shape) * Numel(Tail(shape))

\* A variant of std2 with the biased divisor N; not torch's default.
std2Biased(all) ==
    [dn |-> Len(all) * SumSq(all) - Sum(all) * Sum(all), dd |-> Len(all) * Len(all)]

\* x.std() squared, over every element of x: the unbiased sample variance
\* (N * sum(x^2) - sum(x)^2) / (N * (N - 1)), as dn / dd.
std2(all) ==
    [dn |-> Len(all) * SumSq(all) - Sum(all) * Sum(all), dd |-> Len(all) * (Len(all) - 1)]

\* sum([m ** 2 for m in multipliers]) with m = 0.75 ** e, as dn / dd.
RECURSIVE SumSqMultipliers(_, _)
SumSqMultipliers(multipliers, top) ==
    IF multipliers = <<>> THEN 0
    ELSE Pow(9, Head(multipliers)) * Pow(16, top - Head(multipliers))
            + SumSqMultipliers(Tail(multipliers), top)

NaN == [outcome |-> "nan"]

Scaled(num, dn, dd) == [outcome |-> "ok", num |-> num, dn |-> dn, dd |-> dd]

\* (x - x.mean()) / x.std(): mean and std over the whole tensor.
normalize(x) ==
    LET all == Flatten(x)
        v   == std2(all)
    IN  IF Len(all) < 2 \/ v.dn = 0 THEN NaN
        ELSE Scaled([j \in 1..Len(x) |->
                        [i \in 1..Len(x[j]) |-> Len(all) * x[j][i] - Sum(all)]],
                    Len(all) * Len(all) * v.dn, v.dd)

\* x / x.std(): std over the whole tensor.
DivideByStd(x) ==
    LET v == std2(Flatten(x))
    IN  IF Len(Flatten(x)) < 2 \/ v.dn = 0 THEN NaN
        ELSE Scaled(x, v.dn, v.dd)

\* epsilon / sum([m ** 2 for m in multipliers]) ** 0.5
DivideByMultipliers(x, multipliers) ==
    LET top == multipliers[Len(multipliers)]
    IN  Scaled(x, SumSqMultipliers(multipliers, top), Pow(16, top))

\* The return statement of the class that produced the field.
FinalStep(field, x) ==
    CASE field.norm = "meanstd"     -> normalize(x)
      [] field.norm = "std"         -> DivideByStd(x)
      [] field.norm = "theoretical" -> DivideByMultipliers(x, field.used.multipliers)

\* The classes whose __call__ ends in a division by a standard deviation.
NormClasses == Classes \ {"NoiseGenerator", "BrownianNoiseGenerator", "UniformNoiseGenerator"}

RawItems(n) == [1..n -> RawValues]

RawTensors(shape) == [1..shape[1] -> RawItems(Numel(Tail(shape)))]

NormInit ==
    /\ gen = NoGen
    /\ lastcall = NoCall
    /\ globalRng = DefaultGlobal
    /\ twin = Idle
    /\ pn = Idle
    /\ pl = Idle
    /\ nz \in {[pc |-> "new", cls |-> cls, size |-> size] : cls \in NormClasses, size \in NormSizes}
    /\ ct = Idle
    /\ rg = Idle
    /\ fr = Idle

\* One call of a fresh instance, with any tensor of the field's shape as
\* the operand of its return statement.
NZ_Return ==
    /\ nz.pc = "new"
    /\ LET r == Call(Construct(nz.cls, Tensor(nz.size), 0, NoKwargs), NoKwargs, DefaultGlobal)
       IN  /\ r.outcome = "ok"
           /\ \E x \in RawTensors(r.field.shape) :
                 nz' = [pc |-> "returned", cls |-> nz.cls, size |-> nz.size,
                        field |-> r.field, raw |-> x, out |-> FinalStep(r.field, x)]
    /\ UNCHANGED <<gen, lastcall, globalRng, twin, pn, pl, ct, rg, fr>>

NormNext == NZ_Return

NormSpec == NormInit /\ [][NormNext]_vars

\* The standard deviation of num / sqrt(dn / dd) is 1.
UnitStd(num, dn, dd) ==
    /\ Len(num) >= 2
    /\ (Len(num) * SumSq(num) - Sum(num) * Sum(num)) * dd = Len(num) * (Len(num) - 1) * dn

Returned == nz.pc = "returned" /\ nz.out.outcome = "ok"

\* C7 as stated: for every generator except Uniform and Simplex, each batch
\* item of the returned field, taken on its own, has standard deviation 1,
\* Cascade-B and batch sizes above 1 included.
C7_UnitStdPerItem ==
    (Returned /\ nz.cls # "SimplexNoiseGenerator") =>
        \A j \in 1..Len(nz.out.num) : UnitStd(nz.out.num[j], nz.out.dn, nz.out.dd)

\* C7 amended: for the classes that end in a division by the tensor's own
\* standard deviation (all but Uniform, Brownian and Cascade-B), the
\* returned field has standard deviation 1 over the whole tensor, and mean 0
\* where the mean is subtracted; a single batch item has standard deviation
\* 1 on its own when the batch size is 1.
C7_UnitStdWholeTensor ==
    (Returned /\ nz.field.norm \in {"meanstd", "std"}) =>
        /\ UnitStd(Flatten(nz.out.num), nz.out.dn, nz.out.dd)
        /\ nz.field.norm = "meanstd" => Sum(Flatten(nz.out.num)) = 0
        /\ Len(nz.out.num) = 1 => UnitStd(nz.out.num[1], nz.out.dn, nz.out.dd)

\* A batch of two whose whole-tensor standard deviation is 1 while its first
\* item's is not.
C7_Witness ==
    /\ Returned
    /\ nz.cls = "GaussianNoiseGenerator"
    /\ Len(nz.out.num) = 2
    /\ UnitStd(Flatten(nz.out.num), nz.out.dn, nz.out.dd)
    /\ ~UnitStd(nz.out.num[1], nz.out.dn, nz.out.dd)

(***************************************************************************)
(* The n-th successive field of a generator under the same keywords.       *)
(***************************************************************************)
RECURSIVE NthField(_, _, _, _)
NthField(g, kwargs, grng, n) ==
    LET r == Call(g, kwargs, grng)
    IN  IF n <= 1 THEN r.field ELSE NthField(r.gen, kwargs, r.global, n - 1)

\* The base generator of a run, as built from the arguments other than
\* var_seed and var_strength.
BaseGenerator(args) == MakeGenerator(args, args.latent_image, args.seed)

\* C11: with var_strength = 0.0, whatever var_seed is and with or without an
\* index list, prepare_noise never enters the variation branch (no variation
\* generator, no blend), and what it returns is the base noise: the fields
\* the base generator yields for the same arguments without a variation
\* seed.
C11_ZeroStrengthIsBase ==
    (pn.pc # "idle" /\ pn.args.var_strength = 0) =>
        /\ pn.pc \notin {"varwhole", "var"}
        /\ pn.var_noises = <<>>
        /\ pn.pc = "done" =>
              /\ pn.result = Cat(pn.noises)
              /\ \A p \in 1..Len(pn.noises) :
                    pn.noises[p].field =
                        IF pn.args.noise_inds.kind = "none"
                        THEN NthField(BaseGenerator(pn.args), WholeBatchKwargs, DefaultGlobal, 1)
                        ELSE NthField(BaseGenerator(pn.args), PerIndexKwargs(pn.args.latent_image),
                                      DefaultGlobal, pn.args.noise_inds.val[p] + 1)

\* A run with a variation seed and strength 0 that has returned.
C11_Witness ==
    /\ pn.pc = "done"
    /\ pn.args.var_seed = Val(7)
    /\ pn.args.var_strength = 0
    /\ pn.args.noise_inds.kind = "value"
    /\ pn.result = Cat(pn.noises)

\* C18: on the index path, the field given to a position whose index is v
\* is the (v+1)-th successive field of the base generator, whatever the
\* other indices of the list are.
C18_FieldOfIndex ==
    IndexDone =>
        /\ Len(pn.noises) = Len(pn.args.noise_inds.val)
        /\ \A p \in 1..Len(pn.noises) :
              /\ pn.noises[p].field =
                    NthField(BaseGenerator(pn.args), PerIndexKwargs(pn.args.latent_image),
                             DefaultGlobal, pn.args.noise_inds.val[p] + 1)
              /\ pn.noises[p].inv = <<"base", pn.args.noise_inds.val[p]>>

\* The list [1, 0, 1]: index 1 is given the second field at both places.
C18_Witness ==
    /\ IndexDone
    /\ pn.args.noise_inds.val = <<1, 0, 1>>
    /\ pn.noises[1].inv = <<"base", 1>>
    /\ pn.noises[3].field = pn.noises[1].field
    /\ pn.noises[2].field # pn.noises[1].field

(***************************************************************************)
(* CtorSpec: one construction, with or without a reference tensor x and    *)
(* with any of size, dtype, layout and device given explicitly.            *)
(***************************************************************************)
\* torch.zeros(size, dtype, layout, device): all four are passed by
\* position, where torch.zeros takes sizes only (dtype, layout and device
\* are keyword-only), so torch's argument parser rejects the call.
torch_zeros_positional == "TypeError"

Override(arg, inherited) == IF arg.kind = "value" THEN arg.val ELSE inherited

\* NoiseGenerator.__init__(x, size, dtype, layout, device, seed), then the
\* subclass's own self.update(...) with the signature's defaults.
ConstructFrom(cls, x, size, dtype, layout, device, seed) ==
    IF x.kind = "none"
    THEN [outcome |-> torch_zeros_positional, gen |-> NoGen]
    ELSE LET g == Construct(cls, x.val, seed, NoKwargs)
         IN  [outcome |-> "ok",
              gen |-> [g EXCEPT !.size   = Override(size, @),
                                !.dtype  = Override(dtype, @),
                                !.layout = Override(layout, @),
                                !.device = Override(device, @)]]

CtorTensor == Tensor(<<1, 1, 2, 2>>)

OrNone(v) == {NoneArg, Val(v)}

CtorInit ==
    /\ gen = NoGen
    /\ lastcall = NoCall
    /\ globalRng = DefaultGlobal
    /\ twin = Idle
    /\ pn = Idle
    /\ pl = Idle
    /\ nz = Idle
    /\ ct \in {[pc |-> "start", cls |-> cls, x |-> x, size |-> size, dtype |-> dtype,
                layout |-> layout, device |-> device, seed |-> seed] :
                   cls \in Classes, x \in OrNone(CtorTensor), size \in OrNone(<<1, 1, 4, 4>>),
                   dtype \in OrNone("float16"), layout \in OrNone("sparse_coo"),
                   device \in OrNone("cuda"), seed \in Seeds}
    /\ rg = Idle
    /\ fr = Idle

CT_Construct ==
    /\ ct.pc = "start"
    /\ LET r == ConstructFrom(ct.cls, ct.x, ct.size, ct.dtype, ct.layout, ct.device, ct.seed)
       IN  ct' = [pc |-> "done", cls |-> ct.cls, x |-> ct.x, size |-> ct.size,
                  dtype |-> ct.dtype, layout |-> ct.layout, device |-> ct.device,
                  seed |-> ct.seed, outcome |-> r.outcome, gen |-> r.gen]
    /\ UNCHANGED <<gen, lastcall, globalRng, twin, pn, pl, nz, rg, fr>>

CtorNext == CT_Construct

CtorSpec == CtorInit /\ [][CtorNext]_vars

AllExplicit ==
    /\ ct.size.kind = "value"
    /\ ct.dtype.kind = "value"
    /\ ct.layout.kind = "value"
    /\ ct.device.kind = "value"

\* C12: every class can be constructed from a reference tensor, or from
\* explicit size, dtype, layout and device with no reference tensor, and the
\* instance then has, for each of the four, the explicit argument when one
\* was given and the reference tensor's value otherwise.
C12_ConstructEitherWay ==
    (ct.pc = "done" /\ (ct.x.kind = "value" \/ AllExplicit)) =>
        /\ ct.outcome = "ok"
        /\ ct.gen.size = (IF ct.size.kind = "value" THEN ct.size.val ELSE ct.x.val.shape)
        /\ ct.gen.dtype = (IF ct.dtype.kind = "value" THEN ct.dtype.val ELSE ct.x.val.dtype)
        /\ ct.gen.layout = (IF ct.layout.kind = "value" THEN ct.layout.val ELSE ct.x.val.layout)
        /\ ct.gen.device = (IF ct.device.kind = "value" THEN ct.device.val ELSE ct.x.val.device)

\* C13: a completed call of the Laplace or the Student-t generator leaves
\* the process-wide random state exactly as it was before the call.
C13_GlobalStateRestored ==
    (Called /\ lastcall.outcome = "ok"
        /\ gen.cls \in {"LaplacianNoiseGenerator", "StudentTNoiseGenerator"}) =>
            globalRng = lastcall.globalBefore

\* The part of C13 that the code keeps: the CPU default generator.
C13_CpuStateRestored ==
    (Called /\ lastcall.outcome = "ok"
        /\ gen.cls \in {"LaplacianNoiseGenerator", "StudentTNoiseGenerator"}) =>
            get_rng_state(globalRng) = get_rng_state(lastcall.globalBefore)

(***************************************************************************)
(* RegistrySpec: the lookup of a tag, as prepare_noise does it (line 689), *)
(* for every tag of either registry.                                       *)
(***************************************************************************)
NOISE_GENERATOR_CLASSES_SIMPLE ==
    ("none" :> Plain("GaussianNoiseGenerator"))
    @@ ("brownian" :> Plain("BrownianNoiseGenerator"))
    @@ ("gaussian" :> Plain("GaussianNoiseGenerator"))
    @@ ("gaussian_backwards" :> Plain("GaussianBackwardsNoiseGenerator"))
    @@ ("laplacian" :> Plain("LaplacianNoiseGenerator"))
    @@ ("perlin" :> Plain("PerlinNoiseGenerator"))
    @@ ("studentt" :> Plain("StudentTNoiseGenerator"))
    @@ ("uniform" :> Plain("UniformNoiseGenerator"))
    @@ ("wavelet" :> Plain("WaveletNoiseGenerator"))
    @@ ("brown" :> noise_generator_factory("FractalNoiseGenerator", "alpha", "2.0"))
    @@ ("pink" :> noise_generator_factory("FractalNoiseGenerator", "alpha", "1.0"))
    @@ ("white" :> noise_generator_factory("FractalNoiseGenerator", "alpha", "0.0"))
    @@ ("blue" :> noise_generator_factory("FractalNoiseGenerator", "alpha", "-1.0"))
    @@ ("violet" :> noise_generator_factory("FractalNoiseGenerator", "alpha", "-2.0"))
    @@ ("ultraviolet_A" :> noise_generator_factory("FractalNoiseGenerator", "alpha", "-3.0"))
    @@ ("ultraviolet_B" :> noise_generator_factory("FractalNoiseGenerator", "alpha", "-4.0"))
    @@ ("ultraviolet_C" :> noise_generator_factory("FractalNoiseGenerator", "alpha", "-5.0"))
    @@ ("hires-pyramid-bicubic" :> noise_generator_factory("HiresPyramidNoiseGenerator", "mode", "bicubic"))
    @@ ("hires-pyramid-bilinear" :> noise_generator_factory("HiresPyramidNoiseGenerator", "mode", "bilinear"))
    @@ ("hires-pyramid-nearest" :> noise_generator_factory("HiresPyramidNoiseGenerator", "mode", "nearest"))
    @@ ("pyramid-bicubic" :> noise_generator_factory("PyramidNoiseGenerator", "mode", "bicubic"))
    @@ ("pyramid-bilinear" :> noise_generator_factory("PyramidNoiseGenerator", "mode", "bilinear"))
    @@ ("pyramid-nearest" :> noise_generator_factory("PyramidNoiseGenerator", "mode", "nearest"))
    @@ ("pyramid-interpolated" :> Plain("InterpolatedPyramidNoiseGenerator"))
    @@ ("pyramid-cascade_B" :> Plain("CascadeBPyramidNoiseGenerator"))

NOISE_GENERATOR_NAMES_SIMPLE == DOMAIN NOISE_GENERATOR_CLASSES_SIMPLE

NoEntry == [none |-> TRUE]

\* A variant of dict.get that falls back to the plain Gaussian constructor.
registry_get_or_gaussian(registry, tag) ==
    IF tag \in DOMAIN registry THEN registry[tag] ELSE Plain("GaussianNoiseGenerator")

\* registry.get(tag): the entry, or None for a tag the registry does not have.
registry_get(registry, tag) ==
    IF tag \in DOMAIN registry THEN registry[tag] ELSE NoEntry

RegistryInit ==
    /\ gen = NoGen
    /\ lastcall = NoCall
    /\ globalRng = DefaultGlobal
    /\ twin = Idle
    /\ pn = Idle
    /\ pl = Idle
    /\ nz = Idle
    /\ ct = Idle
    /\ rg \in {[pc |-> "start", tag |-> tag, x |-> Tensor(size), seed |-> seed] :
                  tag \in NOISE_GENERATOR_NAMES \cup NOISE_GENERATOR_NAMES_SIMPLE,
                  size \in Sizes, seed \in Seeds}
    /\ fr = Idle

\* NOISE_GENERATOR_CLASSES.get(noise_type)(x=latent_image, seed=seed, ...):
\* calling None raises TypeError.
RG_Lookup ==
    /\ rg.pc = "start"
    /\ LET e == registry_get(NOISE_GENERATOR_CLASSES, rg.tag)
       IN  rg' = [pc |-> "done", tag |-> rg.tag, x |-> rg.x, seed |-> rg.seed,
                  entry |-> e,
                  outcome |-> IF e = NoEntry THEN "TypeError" ELSE "ok",
                  noise_func |-> IF e = NoEntry THEN NoGen
                                 ELSE Construct(e.cls, rg.x, rg.seed, e.fixed)]
    /\ UNCHANGED <<gen, lastcall, globalRng, twin, pn, pl, nz, ct, fr>>

RegistryNext == RG_Lookup

RegistrySpec == RegistryInit /\ [][RegistryNext]_vars

\* C14: every tag of the simple registry, "none" and the colour presets
\* included, is a tag of the full registry, so the lookup prepare_noise does
\* resolves it to a constructor.
C14_SimpleSubsetOfFull ==
    (rg.pc = "done" /\ rg.tag \in NOISE_GENERATOR_NAMES_SIMPLE) =>
        /\ rg.tag \in NOISE_GENERATOR_NAMES
        /\ rg.outcome = "ok"

SimpleOnlyTags ==
    {"none", "brown", "pink", "white", "blue", "violet",
     "ultraviolet_A", "ultraviolet_B", "ultraviolet_C"}

\* C14 amended: the tags of the simple registry other than "none" and the
\* eight colour presets are tags of the full registry with the same entry
\* and resolve to a constructor; "none" (plain Gaussian) and the colour
\* presets (fractal with a fixed alpha) are tags of the simple registry only,
\* and their lookup in the full registry yields no constructor.
C14_SimpleSharedExceptPresets ==
    (rg.pc = "done" /\ rg.tag \in NOISE_GENERATOR_NAMES_SIMPLE) =>
        IF rg.tag \in SimpleOnlyTags
        THEN /\ rg.tag \notin NOISE_GENERATOR_NAMES
             /\ rg.outcome = "TypeError"
             /\ rg.noise_func = NoGen
             /\ NOISE_GENERATOR_CLASSES_SIMPLE[rg.tag].cls
                   = (IF rg.tag = "none" THEN "GaussianNoiseGenerator" ELSE "FractalNoiseGenerator")
        ELSE /\ rg.entry = NOISE_GENERATOR_CLASSES_SIMPLE[rg.tag]
             /\ rg.outcome = "ok"
             /\ rg.noise_func.cls = NOISE_GENERATOR_CLASSES_SIMPLE[rg.tag].cls

\* The lookup of the preset "pink" has found nothing.
C14_Witness ==
    /\ rg.pc = "done"
    /\ rg.tag = "pink"
    /\ rg.outcome = "TypeError"

(***************************************************************************)
(* FractalSpec: the spectral density grid of FractalNoiseGenerator (lines  *)
(* 162-175) for a shape, a gain k and an exponent alpha * scale.  A bin is *)
(* its tuple of indices, counted from 0; a frequency magnitude is kept as  *)
(* its square.                                                             *)
(***************************************************************************)
MaxAxis == 3

\* torch.fft.fftfreq(n, 1/n): 0, 1, ..., then the negative frequencies.
fftfreq(n, i) == IF i <= (n - 1) \div 2 THEN i ELSE i - n

\* The bins of the grid: (y, x) for a 4-D size, (t, y, x) for a 5-D size.
Bins(size) ==
    IF Rank(size) = 5
    THEN (0..(Frames(size) - 1)) \X (0..(Height(size) - 1)) \X (0..(Width(size) - 1))
    ELSE (0..(Height(size) - 1)) \X (0..(Width(size) - 1))

\* The squared frequency magnitude of a bin, before the clamp.
Freq2(size, bin) ==
    IF Rank(size) = 5
    THEN fftfreq(Frames(size), bin[1]) * fftfreq(Frames(size), bin[1])
            + fftfreq(Height(size), bin[2]) * fftfreq(Height(size), bin[2])
            + fftfreq(Width(size), bin[3]) * fftfreq(Width(size), bin[3])
    ELSE fftfreq(Height(size), bin[1]) * fftfreq(Height(size), bin[1])
            + fftfreq(Width(size), bin[2]) * fftfreq(Width(size), bin[2])

\* k / torch.pow(freq, e) of a bin: freq is clamped at 1e-10 ("eps" where
\* the magnitude is 0), and a power with exponent 0 is 1.
Density(k, freq2, e) ==
    IF e = 0 THEN [k |-> k, freq2 |-> 1, e |-> 0, clamped |-> FALSE]
    ELSE [k |-> k, freq2 |-> freq2, e |-> e, clamped |-> freq2 = 0]

Forced0 == [k |-> 0, freq2 |-> 1, e |-> 0, clamped |-> FALSE]

\* spectral_density[0, 0] = 0 writes every bin whose first two indices are 0.
spectral_density(size, k, e) ==
    [bin \in Bins(size) |->
        IF bin[1] = 0 /\ bin[2] = 0 THEN Forced0 ELSE Density(k, Freq2(size, bin), e)]

FractalSizes ==
    {<<1, 1, h, w>> : h \in 1..MaxAxis, w \in 1..MaxAxis}
        \cup {<<1, 1, t, h, w>> : t \in 1..MaxAxis, h \in 1..MaxAxis, w \in 1..MaxAxis}

\* alpha * scale, in tenths, and k.
Exponents == {-1, 0, 1, 2}
Gains == {1, 2}

FractalInit ==
    /\ gen = NoGen
    /\ lastcall = NoCall
    /\ globalRng = DefaultGlobal
    /\ twin = Idle
    /\ pn = Idle
    /\ pl = Idle
    /\ nz = Idle
    /\ ct = Idle
    /\ rg = Idle
    /\ fr \in {[pc |-> "start", size |-> size, k |-> k, e |-> e] :
                  size \in FractalSizes, k \in Gains, e \in Exponents}

FR_Density ==
    /\ fr.pc = "start"
    /\ fr' = [pc |-> "done", size |-> fr.size, k |-> fr.k, e |-> fr.e,
              grid |-> spectral_density(fr.size, fr.k, fr.e)]
    /\ UNCHANGED <<gen, lastcall, globalRng, twin, pn, pl, nz, ct, rg>>

FractalNext == FR_Density

FractalSpec == FractalInit /\ [][FractalNext]_vars

ZeroFrequency(bin) == \A d \in 1..Len(bin) : bin[d] = 0

\* C15: in the spectral density grid of a 4-D or a 5-D shape, exactly one
\* bin, the zero-frequency bin, is forced to zero, every other bin is
\* k / freq^(alpha*scale), and with alpha = 0 every other bin is k.
C15_OnlyZeroFrequencyForced ==
    fr.pc = "done" =>
        \A bin \in Bins(fr.size) :
            IF ZeroFrequency(bin)
            THEN fr.grid[bin] = Forced0
            ELSE /\ fr.grid[bin] = Density(fr.k, Freq2(fr.size, bin), fr.e)
                 /\ fr.e = 0 => fr.grid[bin].k = fr.k /\ fr.grid[bin].freq2 = 1

(***************************************************************************)
(* The Perlin octaves of a spatiotemporal field (Spec).                    *)
(***************************************************************************)
PerlinCall5 ==
    /\ Called
    /\ lastcall.outcome = "ok"
    /\ gen.cls = "PerlinNoiseGenerator"
    /\ Rank(gen.size) = 5

\* The draws of the octaves added to time slice tt.
Octaves(field, tt) ==
    {field.draws[j][1] : j \in {i \in 2..Len(field.draws) : field.draws[i][2] = tt}}

\* C16 as stated: for a 5-D shape the Perlin contribution of every time
\* slice is the same field, its octaves drawn once per call.
C16_SameFieldEverySlice ==
    PerlinCall5 =>
        \A t1, t2 \in 1..Frames(gen.size) :
            Octaves(lastcall.field, t1) = Octaves(lastcall.field, t2)

\* C16 amended: for a 5-D shape of T time slices the call draws two fresh
\* octaves for each slice, 2 * T in all after the Gaussian draw, and no
\* octave is added to two slices.
C16_FreshOctavesPerSlice ==
    PerlinCall5 =>
        /\ Len(lastcall.field.draws) = 1 + 2 * Frames(gen.size)
        /\ gen.generator.pos = lastcall.before.generator.pos + 1 + 2 * Frames(gen.size)
        /\ \A t1, t2 \in 1..Frames(gen.size) :
              /\ Cardinality(Octaves(lastcall.field, t1)) = 2
              /\ t1 # t2 => Octaves(lastcall.field, t1) \cap Octaves(lastcall.field, t2) = {}

\* A call on a shape of two time slices: five draws.
C16_Witness ==
    /\ PerlinCall5
    /\ Frames(gen.size) = 2
    /\ Len(lastcall.field.draws) = 5
    /\ Octaves(lastcall.field, 1) # Octaves(lastcall.field, 2)

(***************************************************************************)
(* The seed of the backwards-seeked Gaussian generator (Spec).             *)
(***************************************************************************)
BackwardsCalls ==
    /\ Called
    /\ gen.cls = "GaussianBackwardsNoiseGenerator"
    /\ lastcall.failed = 0

\* C17 as stated: each call re-seeds, before drawing, to one less than the
\* seed the context reports; on an instance constructed with seed s the
\* n-th call draws from a stream freshly seeded with s - n, and after n
\* calls the context's seed is s - n.
C17_SeedIsSMinusN ==
    BackwardsCalls =>
        /\ initial_seed(gen.generator) = gen.seed - lastcall.ok
        /\ lastcall.field.draws = <<<<"generator", gen.seed - lastcall.ok, 0>>>>

\* C17 amended: each call re-seeds, before drawing, to one less than the
\* seed the context reports, taken modulo the unsigned 64-bit range; the
\* n-th call draws the first values of the stream seeded with
\* (s - n) mod 2^64, which is s - n as long as n <= s, and that is the seed
\* the context reports after n calls.
C17_SeedIsSMinusNWrapped ==
    BackwardsCalls =>
        /\ initial_seed(gen.generator) = (gen.seed - lastcall.ok) % SeedModulus
        /\ initial_seed(gen.generator)
              = (initial_seed(lastcall.before.generator) - 1) % SeedModulus
        /\ lastcall.field.draws = <<<<"generator", initial_seed(gen.generator), 0>>>>
        /\ lastcall.ok <= gen.seed => initial_seed(gen.generator) = gen.seed - lastcall.ok

\* Two calls on an instance constructed with seed 42: the seed is 40.
C17_Witness ==
    /\ BackwardsCalls
    /\ gen.seed = 42
    /\ lastcall.ok = 2
    /\ initial_seed(gen.generator) = 40
    /\ lastcall.field.draws = <<<<"generator", 40, 0>>>>

====
